---- MODULE Spec2Model ----
(***************************************************************************)
(* Model of u_stock_learning/indicators/compute_indicators.py: the pure    *)
(* indicator functions (compute_daily_returns,                             *)
(* compute_indicators_for_symbol) and the aggregator loop of main.         *)
(*                                                                         *)
(* Numbers.  Python floats are modelled as exact rationals: a number is a  *)
(* reduced pair <<n, d>> with d > 0.  JSON null / Python None is the empty *)
(* tuple <<>>.  statistics.stdev is the square root of a rational          *)
(* variance; a value r + sqrt(v) is carried as the record                  *)
(* [rat |-> r, rad |-> v], so vol_10d and in_play_score are exact.         *)
(* Dates are ISO strings compared lexically by sorted(); they are          *)
(* modelled by integers under the same order.                              *)
(***************************************************************************)
EXTENDS Integers, Sequences, FiniteSets, TLC

\* ------------------------------------------------------------------------
\* Exact arithmetic
\* ------------------------------------------------------------------------

None == <<>>

AbsInt(a) == IF a < 0 THEN -a ELSE a
Min(a, b) == IF a <= b THEN a ELSE b

RECURSIVE Gcd(_, _)
Gcd(a, b) == IF b = 0 THEN a ELSE Gcd(b, a % b)

\* the reduced fraction n/d (d # 0)
Rat(n, d) ==
    LET g == Gcd(AbsInt(n), AbsInt(d))
        s == IF d < 0 THEN -1 ELSE 1
    IN  <<(s * n) \div g, (s * d) \div g>>

Num(k) == <<k, 1>>
Zero == Num(0)
One == Num(1)

RAdd(x, y) == Rat(x[1] * y[2] + y[1] * x[2], x[2] * y[2])
RSub(x, y) == Rat(x[1] * y[2] - y[1] * x[2], x[2] * y[2])
RMul(x, y) == Rat(x[1] * y[1], x[2] * y[2])
RDiv(x, y) == Rat(x[1] * y[2], x[2] * y[1])
RLe(x, y) == x[1] * y[2] <= y[1] * x[2]
RLt(x, y) == x[1] * y[2] < y[1] * x[2]
RAbs(x) == <<AbsInt(x[1]), x[2]>>
RMin(x, y) == IF RLe(x, y) THEN x ELSE y
RMax(x, y) == IF RLe(y, x) THEN x ELSE y

\* r + sqrt(v), v >= 0
Surd(r, v) == [rat |-> r, rad |-> v]

\* 0 <= r + sqrt(v)
SurdNonNeg(s) == RLe(Zero, s.rat) \/ RLe(RMul(s.rat, s.rat), s.rad)

\* r + sqrt(v) <= c
SurdLe(s, c) ==
    /\ RLe(s.rat, c)
    /\ RLe(s.rad, RMul(RSub(c, s.rat), RSub(c, s.rat)))

\* ------------------------------------------------------------------------
\* Python values
\* ------------------------------------------------------------------------

\* bool(x) of None or a number
Truthy(x) == x # None /\ x # Zero

\* a call that returned v / a call that raised exception e
Return(v) == [raised |-> "", value |-> v]
Raise(e) == [raised |-> e, value |-> None]

\* d.get(k): the value under k, None when the key is absent
Get(d, k) == IF k \in DOMAIN d THEN d[k] ELSE None

EmptyDict == [k \in {} |-> None]

\* ------------------------------------------------------------------------
\* compute_daily_returns
\* ------------------------------------------------------------------------

RECURSIVE ReturnsLoop(_, _, _)
\* for i in range(1, len(closes)); closes is 1-based here, so Python's
\* closes[i-1], closes[i] are closes[i], closes[i+1]
ReturnsLoop(closes, i, returns) ==
    IF i >= Len(closes) THEN Return(returns)
    ELSE LET prev == closes[i]
             curr == closes[i + 1]
         IN  IF prev = None \/ prev = Zero
             THEN ReturnsLoop(closes, i + 1, returns)
             ELSE IF curr = None
                  THEN Raise("TypeError")
                  ELSE ReturnsLoop(closes, i + 1,
                           Append(returns, RSub(RDiv(curr, prev), One)))

compute_daily_returns(prices) ==
    IF \E i \in 1..Len(prices) : "close" \notin DOMAIN prices[i]
    THEN Raise("KeyError")
    ELSE ReturnsLoop([i \in 1..Len(prices) |-> prices[i].close], 1, <<>>)

\* ------------------------------------------------------------------------
\* sorted(daily_prices, key=lambda row: row["date"])  (stable)
\* ------------------------------------------------------------------------

RECURSIVE InsertByDate(_, _)
\* row placed after every row whose date is <= its own
InsertByDate(sorted, row) ==
    IF sorted = <<>> THEN <<row>>
    ELSE IF sorted[Len(sorted)].date <= row.date
         THEN Append(sorted, row)
         ELSE Append(InsertByDate(SubSeq(sorted, 1, Len(sorted) - 1), row),
                     sorted[Len(sorted)])

\* the rows left in the order the caller gave them
SortedByDate_unsorted(rows) == rows

RECURSIVE SortedByDate(_)
SortedByDate(rows) ==
    IF rows = <<>> THEN <<>>
    ELSE InsertByDate(SortedByDate(SubSeq(rows, 1, Len(rows) - 1)),
                      rows[Len(rows)])

\* ------------------------------------------------------------------------
\* statistics.stdev, as the variance it is the square root of
\* ------------------------------------------------------------------------

RECURSIVE SumSeq(_)
SumSeq(xs) ==
    IF xs = <<>> THEN Zero
    ELSE RAdd(SumSeq(SubSeq(xs, 1, Len(xs) - 1)), xs[Len(xs)])

\* sum((x - mean)^2) / (n - 1), n >= 2
Variance(xs) ==
    LET n == Len(xs)
        mean == RDiv(SumSeq(xs), Num(n))
        sq == [i \in 1..n |-> RMul(RSub(xs[i], mean), RSub(xs[i], mean))]
    IN  RDiv(SumSeq(sq), Num(n - 1))

VolWindow == 10

\* returns[:10], the oldest ten instead of the newest
Window_oldest(returns) ==
    SubSeq(returns, 1, IF Len(returns) > VolWindow THEN VolWindow
                       ELSE Len(returns))

\* returns[-10:]
Window(returns) ==
    LET m == Len(returns)
        start == IF m > VolWindow THEN m - VolWindow ELSE 0
    IN  SubSeq(returns, start + 1, m)

\* ------------------------------------------------------------------------
\* compute_indicators_for_symbol
\* ------------------------------------------------------------------------

Hundred == Num(100)

\* min(abs(gap_pct) * 100, 50), nothing added when gap_pct is None
GapContribution(gap_pct) ==
    IF gap_pct # None THEN RMin(RMul(RAbs(gap_pct), Hundred), Num(50))
    ELSE Zero

\* min(day_range_pct * 100, 30)
RangeContribution(day_range_pct) ==
    IF day_range_pct # None THEN RMin(RMul(day_range_pct, Hundred), Num(30))
    ELSE Zero

\* min(max(volume_ratio - 1.0, 0.0) * 10, 40)
VolumeContribution(volume_ratio) ==
    IF volume_ratio # None
    THEN RMin(RMul(RMax(RSub(volume_ratio, One), Zero), Num(10)), Num(40))
    ELSE Zero

\* min(vol_10d * 100, 30), squared: vol_10d is carried as its variance
VolContributionSq(vol_10d) ==
    IF vol_10d # None
    THEN RMin(RMul(vol_10d, RMul(Hundred, Hundred)), RMul(Num(30), Num(30)))
    ELSE Zero

\* in_play_score = 0.0, then the four += in turn
InPlayScore(gap_pct, day_range_pct, volume_ratio, vol_10d) ==
    Surd(RAdd(RAdd(RAdd(Zero, GapContribution(gap_pct)),
                   RangeContribution(day_range_pct)),
              VolumeContribution(volume_ratio)),
         VolContributionSq(vol_10d))

\* close_return_1d; needs prev_close truthy, last_close / prev_close raises
\* on a None last_close
CloseReturn1d(last_close, prev_close) ==
    IF Truthy(prev_close)
    THEN IF last_close = None THEN Raise("TypeError")
         ELSE Return(RSub(RDiv(last_close, prev_close), One))
    ELSE Return(None)

\* prev_close_ref or prev_close
BasePrevClose(prev_close_ref, prev_close) ==
    IF Truthy(prev_close_ref) THEN prev_close_ref ELSE prev_close

GapPct(today_open, prev_close_ref, prev_close) ==
    LET base_prev_close == BasePrevClose(prev_close_ref, prev_close)
    IN  IF Truthy(base_prev_close) /\ Truthy(today_open)
        THEN RSub(RDiv(today_open, base_prev_close), One)
        ELSE None

DayRangePct(today_open, today_high, today_low) ==
    IF Truthy(today_open) /\ Truthy(today_high) /\ Truthy(today_low)
    THEN IF today_open # Zero
         THEN RDiv(RSub(today_high, today_low), today_open)
         ELSE None
    ELSE None

VolumeRatio(today_volume, avg_vol_10d) ==
    IF Truthy(today_volume) /\ Truthy(avg_vol_10d)
    THEN IF avg_vol_10d # Zero THEN RDiv(today_volume, avg_vol_10d)
         ELSE None
    ELSE None

\* vol_10d = statistics.stdev(returns[-10:]), carried as the variance
Vol10d(returns) ==
    IF Len(returns) >= 2
    THEN LET window == Window(returns)
         IN  IF Len(window) >= 2 THEN Variance(window) ELSE None
    ELSE None

\* fundamentals.get("trading_snapshot", {})
TradingSnapshot(fundamentals) ==
    IF "trading_snapshot" \in DOMAIN fundamentals
    THEN fundamentals["trading_snapshot"]
    ELSE EmptyDict

\* the body of compute_indicators_for_symbol from last = ...[-1] on
IndicatorsFromSorted(symbol, daily_prices_sorted, fundamentals) ==
    LET last == daily_prices_sorted[Len(daily_prices_sorted)]
        prev == daily_prices_sorted[Len(daily_prices_sorted) - 1]
    IN
    IF "close" \notin DOMAIN last \/ "close" \notin DOMAIN prev
    THEN Raise("KeyError")
    ELSE
    LET last_close == last.close
        prev_close == prev.close
        close_return_1d == CloseReturn1d(last_close, prev_close)
    IN
    IF close_return_1d.raised # "" THEN close_return_1d
    ELSE
    LET trading_snapshot == TradingSnapshot(fundamentals)
        today_open == Get(trading_snapshot, "regularMarketOpen")
        today_high == Get(trading_snapshot, "regularMarketDayHigh")
        today_low == Get(trading_snapshot, "regularMarketDayLow")
        today_volume == Get(trading_snapshot, "regularMarketVolume")
        avg_vol_10d == Get(trading_snapshot, "averageDailyVolume10Day")
        prev_close_ref == Get(trading_snapshot, "regularMarketPreviousClose")
        gap_pct == GapPct(today_open, prev_close_ref, prev_close)
        day_range_pct == DayRangePct(today_open, today_high, today_low)
        volume_ratio == VolumeRatio(today_volume, avg_vol_10d)
        returns == compute_daily_returns(daily_prices_sorted)
    IN
    IF returns.raised # "" THEN returns
    ELSE
    LET vol_10d == Vol10d(returns.value)
    IN  Return([symbol |-> symbol,
                close_return_1d |-> close_return_1d.value,
                gap_pct |-> gap_pct,
                day_range_pct |-> day_range_pct,
                volume_ratio |-> volume_ratio,
                vol_10d |-> vol_10d,
                in_play_score |->
                    InPlayScore(gap_pct, day_range_pct, volume_ratio, vol_10d)])

\* a Signal with every derived field undefined
NullSignal(symbol) ==
    [symbol |-> symbol, close_return_1d |-> None, gap_pct |-> None,
     day_range_pct |-> None, volume_ratio |-> None, vol_10d |-> None,
     in_play_score |-> Surd(Zero, Zero)]

\* the length guard dropped: a short series yields a record of nulls
compute_indicators_for_symbol_nulls(symbol, daily_prices, fundamentals) ==
    IF Len(daily_prices) < 2 THEN Return(NullSignal(symbol))
    ELSE IndicatorsFromSorted(symbol, SortedByDate(daily_prices), fundamentals)

compute_indicators_for_symbol(symbol, daily_prices, fundamentals) ==
    IF Len(daily_prices) < 2 THEN Return(EmptyDict)
    ELSE IndicatorsFromSorted(symbol, SortedByDate(daily_prices), fundamentals)

\* ------------------------------------------------------------------------
\* Inputs: the contents of prices-sample.json and fundamentals-slim.json
\* ------------------------------------------------------------------------

\* a row of prices_json: the date and the close; keyless adds the row
\* that has no "close" key
RowsAt(d, closes, keyless) ==
    {[date |-> d, close |-> c] : c \in closes}
        \cup (IF keyless THEN {[date |-> d]} ELSE {})

RECURSIVE RowLists(_, _, _)
\* the lists of n rows whose dates are given by dates[1..n]
RowLists(dates, closes, keyless) ==
    IF dates = <<>> THEN {<<>>}
    ELSE {Append(front, row) :
             front \in RowLists(SubSeq(dates, 1, Len(dates) - 1), closes,
                                keyless),
             row \in RowsAt(dates[Len(dates)], closes, keyless)}

\* lists of at most maxLen rows in date order
SortedSeries(maxLen, closes, keyless) ==
    UNION {RowLists([i \in 1..n |-> i], closes, keyless) : n \in 0..maxLen}

\* lists of at most maxLen rows in any order, dates possibly repeated
AnySeries(maxLen, closes, keyless) ==
    UNION {UNION {RowLists(dates, closes, keyless) :
                     dates \in [1..n -> 1..n]} : n \in 0..maxLen}

SnapshotFields ==
    {"regularMarketOpen", "regularMarketDayHigh", "regularMarketDayLow",
     "regularMarketVolume", "averageDailyVolume10Day",
     "regularMarketPreviousClose"}

\* the snapshots whose field f, when present, has a value in vals[f]
Snapshots(vals) ==
    UNION {{snap \in [F -> UNION {vals[f] : f \in F}] :
               \A f \in F : snap[f] \in vals[f]} : F \in SUBSET SnapshotFields}

\* fundamentals records: no trading_snapshot key, or one of the snapshots
Fundamentals(snapshots) ==
    {EmptyDict} \cup {[trading_snapshot |-> snap] : snap \in snapshots}

\* ------------------------------------------------------------------------
\* main: the aggregator loop
\* ------------------------------------------------------------------------

VARIABLES
    prices_by_symbol,        \* prices_json["prices"]: symbol -> list of rows
    fundamentals_by_symbol,  \* fundamentals_json["data"]: symbol -> record
    todo,                    \* symbols the for loop has not reached yet
    signals,                 \* the signals dict: insertion-ordered keys, map
    pc,                      \* "loop", "done", "raised"; "call", "returned"
    error,                   \* the exception that ended the run, "" if none
    output,                  \* the output dict, None until it is built
    returns                  \* result of a direct compute_daily_returns call

vars == <<prices_by_symbol, fundamentals_by_symbol, todo, signals, pc, error,
          output, returns>>

\* a Python dict keeps its keys in insertion order
NewDict == [keys |-> <<>>, map |-> EmptyDict]

\* d[k] = v
DictSet(d, k, v) ==
    IF k \in DOMAIN d.map
    THEN [d EXCEPT !.map = [j \in DOMAIN d.map |-> IF j = k THEN v ELSE d.map[j]]]
    ELSE [keys |-> Append(d.keys, k),
          map |-> [j \in DOMAIN d.map \cup {k} |->
                      IF j = k THEN v ELSE d.map[j]]]

\* the lookup ignoring its key: the record of some symbol of the file
FundOf_anySymbol(fundamentals, symbol) ==
    IF DOMAIN fundamentals = {} THEN EmptyDict
    ELSE fundamentals[CHOOSE k \in DOMAIN fundamentals :
                          \A j \in DOMAIN fundamentals :
                              fundamentals[j] = EmptyDict
                                  => fundamentals[k] = EmptyDict]

\* fundamentals_by_symbol.get(symbol, {})
FundOf(fundamentals, symbol) ==
    IF symbol \in DOMAIN fundamentals THEN fundamentals[symbol] ELSE EmptyDict

\* state after signals = {} and before the first iteration
MainInit ==
    /\ todo = DOMAIN prices_by_symbol
    /\ signals = NewDict
    /\ pc = "loop"
    /\ error = ""
    /\ output = None
    /\ returns = None

\* one iteration of  for symbol, price_rows in prices_by_symbol.items()
LoopStep(symbol) ==
    /\ pc = "loop"
    /\ symbol \in todo
    /\ LET price_rows == prices_by_symbol[symbol]
           fund == FundOf(fundamentals_by_symbol, symbol)
           indicators == compute_indicators_for_symbol(symbol, price_rows, fund)
       IN  IF indicators.raised # ""
           THEN /\ pc' = "raised"
                /\ error' = indicators.raised
                /\ UNCHANGED <<todo, signals>>
           ELSE /\ todo' = todo \ {symbol}
                /\ signals' = IF indicators.value # EmptyDict
                              THEN DictSet(signals, symbol, indicators.value)
                              ELSE signals
                /\ UNCHANGED <<pc, error>>
    /\ UNCHANGED <<prices_by_symbol, fundamentals_by_symbol, output, returns>>

\* the symbols list taken from the price data, list(prices_by_symbol.keys()),
\* instead of from the signals
BuildOutput_allSymbols ==
    /\ pc = "loop"
    /\ todo = {}
    /\ output' =
           [symbols |->
                CHOOSE q \in [1..Cardinality(DOMAIN prices_by_symbol) ->
                                 DOMAIN prices_by_symbol] :
                    {q[i] : i \in DOMAIN q} = DOMAIN prices_by_symbol,
            signals |-> signals.map]
    /\ pc' = "done"
    /\ UNCHANGED <<prices_by_symbol, fundamentals_by_symbol, todo, signals,
                   error, returns>>

\* output = {"generated_at": ..., "symbols": list(signals.keys()),
\*           "signals": signals}; the timestamp is left out
BuildOutput ==
    /\ pc = "loop"
    /\ todo = {}
    /\ output' = [symbols |-> signals.keys, signals |-> signals.map]
    /\ pc' = "done"
    /\ UNCHANGED <<prices_by_symbol, fundamentals_by_symbol, todo, signals,
                   error, returns>>

Next ==
    \/ \E symbol \in todo : LoopStep(symbol)
    \/ BuildOutput

\* a direct call compute_daily_returns(prices) on the rows held for "A"
DailyReturns ==
    /\ pc = "call"
    /\ returns' = compute_daily_returns(prices_by_symbol["A"])
    /\ pc' = "returned"
    /\ UNCHANGED <<prices_by_symbol, fundamentals_by_symbol, todo, signals,
                   error, output>>

NextReturns == DailyReturns

\* ------------------------------------------------------------------------
\* Specification of main over two price symbols
\* ------------------------------------------------------------------------

Symbols == {"A", "B"}
\* a symbol that only the fundamentals file can hold
FundOnlySymbol == "C"
MaxBarsMain == 2
ClosesMain == {None, Num(1), Num(2)}

SnapshotFull ==
    [regularMarketOpen |-> Num(108), regularMarketDayHigh |-> Num(112),
     regularMarketDayLow |-> Num(107), regularMarketVolume |-> Num(5),
     averageDailyVolume10Day |-> Num(2),
     regularMarketPreviousClose |-> Num(100)]

FundamentalsMain == Fundamentals({EmptyDict, SnapshotFull})

Init ==
    /\ prices_by_symbol \in
           UNION {[D -> SortedSeries(MaxBarsMain, ClosesMain, TRUE)] :
                     D \in SUBSET Symbols}
    /\ fundamentals_by_symbol \in
           UNION {[D -> FundamentalsMain] :
                     D \in SUBSET (Symbols \cup {FundOnlySymbol})}
    /\ MainInit

Spec == Init /\ [][Next]_vars

\* ------------------------------------------------------------------------
\* Specification of compute_daily_returns called on its own
\* ------------------------------------------------------------------------

MaxReturnsLen == 4
ClosesReturns == {None, Zero, Num(1), Num(2)}

InitReturns ==
    /\ prices_by_symbol \in
           [{"A"} -> SortedSeries(MaxReturnsLen, ClosesReturns, FALSE)]
    /\ fundamentals_by_symbol = EmptyDict
    /\ todo = {}
    /\ signals = NewDict
    /\ pc = "call"
    /\ error = ""
    /\ output = None
    /\ returns = None

SpecReturns == InitReturns /\ [][NextReturns]_vars

\* ------------------------------------------------------------------------
\* Specification of main over one symbol, the trading snapshot varied
\* ------------------------------------------------------------------------

MaxBarsSnapshot == 2
ClosesSnapshot == {None, Zero, Num(1), Num(2)}

SnapshotValues ==
    [regularMarketOpen |-> {None, Zero, Num(1), Num(4), Num(-1)},
     regularMarketDayHigh |-> {Zero, Num(1), Num(2)},
     regularMarketDayLow |-> {Zero, Num(1), Num(2)},
     regularMarketVolume |-> {Zero, Num(1), Num(5)},
     averageDailyVolume10Day |-> {Zero, Num(1), Num(2)},
     regularMarketPreviousClose |-> {None, Zero, Num(1), Num(2)}]

InitSnapshot ==
    /\ prices_by_symbol \in
           [{"A"} -> SortedSeries(MaxBarsSnapshot, ClosesSnapshot, FALSE)]
    /\ fundamentals_by_symbol \in
           {EmptyDict} \cup
           [{"A"} -> Fundamentals(Snapshots(SnapshotValues))]
    /\ MainInit

SpecSnapshot == InitSnapshot /\ [][Next]_vars

\* ------------------------------------------------------------------------
\* Specification of main over one symbol, the rows in any order
\* ------------------------------------------------------------------------

MaxBarsPerm == 3
ClosesPerm == {None, Num(1), Num(2)}

InitPerm ==
    /\ prices_by_symbol \in
           [{"A"} -> AnySeries(MaxBarsPerm, ClosesPerm, FALSE)]
    /\ fundamentals_by_symbol \in
           {EmptyDict} \cup [{"A"} -> FundamentalsMain]
    /\ MainInit

SpecPerm == InitPerm /\ [][Next]_vars

\* ------------------------------------------------------------------------
\* Specification of main over one symbol with a long price history
\* ------------------------------------------------------------------------

MaxBarsVol == 12
MaxZeroPosition == 1
ClosesVol == {Num(1), Num(2)}

\* the series of S, and those with one of their first k closes set to zero
WithZeroClose(S, k) ==
    S \cup UNION {{[rows EXCEPT ![i].close = Zero] :
                      i \in 1..Min(k, Len(rows))} : rows \in S}

InitVol ==
    /\ prices_by_symbol \in
           [{"A"} -> WithZeroClose(SortedSeries(MaxBarsVol, ClosesVol, FALSE),
                                   MaxZeroPosition)]
    /\ fundamentals_by_symbol = EmptyDict
    /\ MainInit

SpecVol == InitVol /\ [][Next]_vars

\* ------------------------------------------------------------------------
\* Claims
\* ------------------------------------------------------------------------

\* the close of a row as the specification reads it: None when the key is
\* absent or null
CloseOf(row) == Get(row, "close")

\* the positions i of rows whose pair (i, i+1) has a usable denominator
UsableDenominators(rows) ==
    SelectSeq([i \in 1..(Len(rows) - 1) |-> i],
              LAMBDA i : Truthy(CloseOf(rows[i])))

\* C1: for every closing-price sequence of length n, closes possibly missing,
\* null or zero, compute_daily_returns returns without error the values
\* close[i+1]/close[i] - 1, oldest first, of exactly the adjacent pairs whose
\* denominator close[i] is present and non-zero, so n-1 minus the number of
\* missing-or-zero denominators of them, and none for n = 0 or n = 1.
C1_ReturnsSkipBadDenominators ==
    pc = "returned" =>
        LET rows == prices_by_symbol["A"]
            usable == UsableDenominators(rows)
            bad == {i \in 1..(Len(rows) - 1) : ~Truthy(CloseOf(rows[i]))}
        IN  /\ returns.raised = ""
            /\ Len(returns.value) = Len(usable)
            /\ Len(rows) >= 1 =>
                   Len(returns.value) = (Len(rows) - 1) - Cardinality(bad)
            /\ Len(rows) <= 1 => returns.value = <<>>
            /\ \A k \in 1..Len(usable) :
                   CloseOf(rows[usable[k] + 1]) # None =>
                       returns.value[k] =
                           RSub(RDiv(CloseOf(rows[usable[k] + 1]),
                                     CloseOf(rows[usable[k]])), One)

\* C2: a symbol of the price data has an entry in the signals mapping only if
\* its price sequence has at least 2 bars, and in the final mapping if and
\* only if it has; a symbol with 0 or 1 bars is never emitted, whatever the
\* fundamentals hold.
C2_EmittedIffTwoBars ==
    /\ \A s \in DOMAIN signals.map : Len(prices_by_symbol[s]) >= 2
    /\ pc = "done" =>
           \A s \in DOMAIN prices_by_symbol :
               s \in DOMAIN output.signals <=> Len(prices_by_symbol[s]) >= 2

\* main has finished, a one-bar symbol with a full trading snapshot was left
\* out and a two-bar symbol was emitted
C2_Witness ==
    /\ pc = "done"
    /\ \E s \in DOMAIN prices_by_symbol :
           /\ Len(prices_by_symbol[s]) = 1
           /\ s \in DOMAIN fundamentals_by_symbol
           /\ fundamentals_by_symbol[s] = [trading_snapshot |-> SnapshotFull]
           /\ s \notin DOMAIN output.signals
    /\ \E s \in DOMAIN prices_by_symbol :
           /\ Len(prices_by_symbol[s]) = 2
           /\ s \in DOMAIN output.signals

\* the snapshot field f of symbol s as the specification reads it: None when
\* the fundamentals, the trading snapshot or the field is absent or null
SnapshotField(s, f) ==
    IF s \in DOMAIN fundamentals_by_symbol
    THEN IF "trading_snapshot" \in DOMAIN fundamentals_by_symbol[s]
         THEN Get(fundamentals_by_symbol[s]["trading_snapshot"], f)
         ELSE None
    ELSE None

InRange(x, lo, hi) == RLe(Num(lo), x) /\ RLe(x, Num(hi))

\* C3: for all inputs, high < low and negative values included, each of the
\* four in_play_score contributions lies within its bound (gap in [0, 50],
\* range in [0, 30], volume in [0, 40], volatility in [0, 30]) and
\* in_play_score is at least 0 and at most 150.
C3_ContributionsBounded ==
    \A s \in DOMAIN signals.map :
        LET sig == signals.map[s]
        IN  /\ InRange(GapContribution(sig.gap_pct), 0, 50)
            /\ InRange(RangeContribution(sig.day_range_pct), 0, 30)
            /\ InRange(VolumeContribution(sig.volume_ratio), 0, 40)
            /\ InRange(VolContributionSq(sig.vol_10d), 0, 30 * 30)
            /\ SurdNonNeg(sig.in_play_score)
            /\ SurdLe(sig.in_play_score, Num(150))

\* the bar with the second-greatest date of a series given in date order
PrevBar(rows) == rows[Len(rows) - 1]

\* C5: gap_pct is today_open/base_prev_close - 1 where base_prev_close is the
\* snapshot's regularMarketPreviousClose whenever that field is present, a
\* present zero included, and prev.close only when it is absent; gap_pct is
\* undefined exactly when there is no base or no today_open.
C5_GapUsesPresentSnapshotClose ==
    \A s \in DOMAIN signals.map :
        LET sig == signals.map[s]
            today_open == SnapshotField(s, "regularMarketOpen")
            ref == SnapshotField(s, "regularMarketPreviousClose")
            base == IF ref # None THEN ref
                    ELSE CloseOf(PrevBar(prices_by_symbol[s]))
        IN  /\ sig.gap_pct = None <=> (base = None \/ today_open = None)
            /\ (base # None /\ base # Zero /\ today_open # None) =>
                   sig.gap_pct = RSub(RDiv(today_open, base), One)

\* C6: day_range_pct is defined, and equals (today_high - today_low) /
\* today_open, if and only if today_open, today_high and today_low are all
\* present and today_open is non-zero; a present zero today_high or today_low
\* still yields a defined value.
C6_RangeGuardsOnlyDenominator ==
    \A s \in DOMAIN signals.map :
        LET sig == signals.map[s]
            today_open == SnapshotField(s, "regularMarketOpen")
            today_high == SnapshotField(s, "regularMarketDayHigh")
            today_low == SnapshotField(s, "regularMarketDayLow")
            defined == /\ today_open # None
                       /\ today_high # None
                       /\ today_low # None
                       /\ today_open # Zero
        IN  /\ sig.day_range_pct # None <=> defined
            /\ defined =>
                   sig.day_range_pct =
                       RDiv(RSub(today_high, today_low), today_open)

\* C7: volume_ratio is defined, and equals today_volume/avg_vol_10d, if and
\* only if today_volume and avg_vol_10d are both present and avg_vol_10d is
\* non-zero; a present today_volume of zero yields 0, not undefined.
C7_VolumeGuardsOnlyDenominator ==
    \A s \in DOMAIN signals.map :
        LET sig == signals.map[s]
            today_volume == SnapshotField(s, "regularMarketVolume")
            avg_vol_10d == SnapshotField(s, "averageDailyVolume10Day")
            defined == /\ today_volume # None
                       /\ avg_vol_10d # None
                       /\ avg_vol_10d # Zero
        IN  /\ sig.volume_ratio # None <=> defined
            /\ defined => sig.volume_ratio = RDiv(today_volume, avg_vol_10d)

\* C4: for every symbol with at least 2 bars, whatever is absent (a null
\* close in any position, the latest bar included, snapshot fields, the
\* fundamentals), compute_indicators_for_symbol completes without raising and
\* a Signal is stored; no input leads to a hard failure.
C4_NeverRaises ==
    /\ pc # "raised"
    /\ \A s \in DOMAIN prices_by_symbol :
           (s \notin todo /\ Len(prices_by_symbol[s]) >= 2) =>
               s \in DOMAIN signals.map

\* the fundamentals record of symbol s, empty when the file has none
OwnFundamentals(s) ==
    IF s \in DOMAIN fundamentals_by_symbol THEN fundamentals_by_symbol[s]
    ELSE EmptyDict

\* C8: with m the number of returns of a symbol's sorted bars, vol_10d is the
\* deviation of exactly the min(m, 10) most recent returns, the older ones
\* ignored, and is undefined if and only if that count is below 2.
C8_VolOverLastTen ==
    \A s \in DOMAIN signals.map :
        LET rets == compute_daily_returns(prices_by_symbol[s]).value
            m == Len(rets)
            k == Min(m, 10)
            recent == [i \in 1..k |-> rets[m - k + i]]
        IN  /\ signals.map[s].vol_10d = None <=> k < 2
            /\ k >= 2 => signals.map[s].vol_10d = Variance(recent)

\* a Signal stored for more than 10 returns whose vol_10d differs from the
\* deviation of all of them and from that of a shorter recent window
C8_Witness ==
    \E s \in DOMAIN signals.map :
        LET rets == compute_daily_returns(prices_by_symbol[s]).value
            m == Len(rets)
        IN  /\ m > 10
            /\ signals.map[s].vol_10d # None
            /\ signals.map[s].vol_10d # Variance(rets)
            /\ signals.map[s].vol_10d # Variance(SubSeq(rets, m - 8, m))

DistinctDates(rows) ==
    \A i, j \in 1..Len(rows) : i # j => rows[i].date # rows[j].date

\* the reorderings of a list of rows
Reorderings(rows) ==
    {[i \in 1..Len(rows) |-> rows[f[i]]] : f \in Permutations(1..Len(rows))}

\* what the loop iteration of an already processed symbol s came to, in a
\* run over the single symbol s
OutcomeOf(s) ==
    IF pc = "raised" THEN Raise(error)
    ELSE IF s \in DOMAIN signals.map THEN Return(signals.map[s])
         ELSE Return(EmptyDict)

\* C9: for every price sequence with pairwise distinct dates the Signal is
\* that of the bars taken in ascending date order (prev and last the bars
\* with the second-greatest and greatest date, the returns those of the
\* ascending order), and so the same for every permutation of the input.
C9_OrderOfRowsIrrelevant ==
    \A s \in DOMAIN prices_by_symbol :
        LET rows == prices_by_symbol[s]
        IN  (DistinctDates(rows) /\ Len(rows) >= 2
                 /\ (s \notin todo \/ pc = "raised")) =>
                LET asc == CHOOSE p \in Reorderings(rows) :
                               \A i \in 1..(Len(p) - 1) :
                                   p[i].date < p[i + 1].date
                IN  /\ OutcomeOf(s) =
                           IndicatorsFromSorted(s, asc, OwnFundamentals(s))
                    /\ \A p \in Reorderings(rows) :
                           compute_indicators_for_symbol(
                               s, p, OwnFundamentals(s)) = OutcomeOf(s)

\* a Signal stored for three bars supplied newest first, which differs from
\* the one the supplied order would give
C9_Witness ==
    \E s \in DOMAIN signals.map :
        LET rows == prices_by_symbol[s]
        IN  /\ Len(rows) = 3
            /\ rows[1].date > rows[2].date
            /\ rows[2].date > rows[3].date
            /\ signals.map[s].vol_10d # None
            /\ Return(signals.map[s]) #
                   IndicatorsFromSorted(s, rows, OwnFundamentals(s))

\* C10: the Signal stored for a symbol is a function of that symbol's own
\* bars and fundamentals alone, whatever the order in which the loop takes
\* the symbols and whatever the other symbols' data; the final mapping is
\* that function applied to each symbol with at least 2 bars.
C10_SignalDependsOnOwnDataOnly ==
    /\ \A s \in DOMAIN signals.map :
           Return(signals.map[s]) =
               compute_indicators_for_symbol(
                   s, prices_by_symbol[s], OwnFundamentals(s))
    /\ pc = "done" =>
           output.signals =
               [s \in {t \in DOMAIN prices_by_symbol :
                          Len(prices_by_symbol[t]) >= 2} |->
                   compute_indicators_for_symbol(
                       s, prices_by_symbol[s], OwnFundamentals(s)).value]

\* main has finished having taken B before A; both are emitted, from
\* different fundamentals and with different Signals
C10_Witness ==
    /\ pc = "done"
    /\ signals.keys = <<"B", "A">>
    /\ OwnFundamentals("A") # OwnFundamentals("B")
    /\ output.signals["A"].gap_pct # output.signals["B"].gap_pct

\* the list xs holds exactly the elements of the set S, each once
ListsExactly(xs, S) ==
    /\ {xs[i] : i \in 1..Len(xs)} = S
    /\ \A i, j \in 1..Len(xs) : i # j => xs[i] # xs[j]

\* C11: after every step of the aggregator loop and in the final output,
\* every key of the signals mapping is a symbol of the price data (a symbol
\* held only by the fundamentals is never emitted), the Signal stored under
\* key s has its symbol field equal to s, and the symbols list holds exactly
\* the keys of the signals mapping, each once.
C11_KeysSymbolsAgree ==
    /\ DOMAIN signals.map \subseteq DOMAIN prices_by_symbol
    /\ FundOnlySymbol \notin DOMAIN signals.map
    /\ \A s \in DOMAIN signals.map : signals.map[s].symbol = s
    /\ ListsExactly(signals.keys, DOMAIN signals.map)
    /\ pc = "done" =>
           /\ DOMAIN output.signals \subseteq DOMAIN prices_by_symbol
           /\ FundOnlySymbol \notin DOMAIN output.signals
           /\ \A s \in DOMAIN output.signals : output.signals[s].symbol = s
           /\ ListsExactly(output.symbols, DOMAIN output.signals)

\* main has finished over two price symbols, one emitted and one left out
\* for want of bars, while the fundamentals also hold a symbol with a full
\* trading snapshot that the price data lacks
C11_Witness ==
    /\ pc = "done"
    /\ DOMAIN prices_by_symbol = Symbols
    /\ FundOnlySymbol \in DOMAIN fundamentals_by_symbol
    /\ fundamentals_by_symbol[FundOnlySymbol] =
           [trading_snapshot |-> SnapshotFull]
    /\ Len(output.symbols) = 1
    /\ output.signals[output.symbols[1]].symbol = output.symbols[1]

====
